---- MODULE Spec2Model ----
(***************************************************************************)
(* SimpleHTTPServerWithUpload (Python 3): the POST upload handler, the     *)
(* URL-path resolver and the directory listing, as state machines.         *)
(*                                                                         *)
(* Text is a sequence of one-element strings.  A URL is a sequence of URL  *)
(* characters: a literal character, or a percent-escape written as one     *)
(* element ("%2e").  A request body is a sequence of tokens, each a record *)
(* [k, v]: a delimiter line start "--" + boundary (k = "delim", v the      *)
(* boundary), a line terminator \r\n (k = "crlf"), the header text         *)
(* Content-Disposition: form-data; name="file" (k = "cd"), the attribute   *)
(* ; filename="v" (k = "fn"), or other bytes holding neither a line        *)
(* terminator nor a delimiter (k = "text").  Paths are POSIX paths.        *)
(***************************************************************************)
EXTENDS Integers, Sequences, FiniteSets, TLC

VARIABLES
    cwd,        \* os.getcwd(): the directory the server was started in
    pc,         \* where the current handler (or pure-function run) stands
    files,      \* the regular files on disk: canonical path -> content
    req,        \* the request being handled: <<>> or <<request>>
    resp,       \* the response written to wfile: <<>> or <<response>>
    handled,    \* requests handled so far by serve_forever
    uploads,    \* the writes deal_post_data has performed, oldest first
    urlpath,    \* translate_path: the URL path given
    resolved,   \* translate_path(urlpath): <<>> or <<path>>
    again,      \* translate_path applied to the resolved path: <<>> or <<path>>
    below,      \* translate_path applied to its part under cwd: <<>> or <<path>>
    entries,    \* list_directory: the directory's entries, name -> kind
    file_list,  \* list_directory: what os.listdir returned, in its order
    listing     \* list_directory: the response: <<>> or <<response>>

vars == <<cwd, pc, files, req, resp, handled, uploads,
          urlpath, resolved, again, below, entries, file_list, listing>>

----------------------------------------------------------------------------
(* Sequences as Python's str / bytes / list operations use them.            *)

Last(s) == s[Len(s)]

Front(s) == SubSeq(s, 1, Len(s) - 1)

\* x in s, for an element x
Contains(s, x) == \E i \in 1..Len(s) : s[i] = x

\* s.find(x) + 1 for an element x: the first index holding x, 0 when none
IndexOf(s, x) ==
    IF Contains(s, x) THEN CHOOSE i \in 1..Len(s) : s[i] = x /\ \A j \in 1..(i-1) : s[j] # x
    ELSE 0

\* s.rfind(x) + 1
LastIndexOf(s, x) ==
    IF Contains(s, x) THEN CHOOSE i \in 1..Len(s) : s[i] = x /\ \A j \in (i+1)..Len(s) : s[j] # x
    ELSE 0

\* s.split(x): the pieces of s between the occurrences of element x
RECURSIVE str_split(_, _)
str_split(s, x) ==
    LET i == IndexOf(s, x)
    IN  IF i = 0 THEN <<s>>
        ELSE <<SubSeq(s, 1, i - 1)>> \o str_split(SubSeq(s, i + 1, Len(s)), x)

\* s.split(x, 1)[0]
split_first(s, x) ==
    LET i == IndexOf(s, x) IN IF i = 0 THEN s ELSE SubSeq(s, 1, i - 1)

\* x.join(pieces)
RECURSIVE str_join(_, _)
str_join(pieces, x) ==
    IF pieces = <<>> THEN <<>>
    ELSE IF Len(pieces) = 1 THEN pieces[1]
    ELSE pieces[1] \o <<x>> \o str_join(Tail(pieces), x)

startswith(s, prefix) ==
    Len(s) >= Len(prefix) /\ SubSeq(s, 1, Len(prefix)) = prefix

\* s.rstrip(x)
RECURSIVE rstrip(_, _)
rstrip(s, x) == IF s # <<>> /\ Last(s) = x THEN rstrip(Front(s), x) ELSE s

AllEqual(s, x) == \A i \in 1..Len(s) : s[i] = x

----------------------------------------------------------------------------
(* posixpath and urllib.parse, as translate_path and deal_post_data call    *)
(* them.                                                                    *)

\* urllib.parse.unquote on one URL character
unquote_char(c) ==
    CASE c = "%2e" -> "."
      [] c = "%2f" -> "/"
      [] c = "%3f" -> "?"
      [] OTHER -> c

unquote(s) == [i \in 1..Len(s) |-> unquote_char(s[i])]

\* the loop of posixpath.normpath over the components
RECURSIVE norm_comps(_, _, _)
norm_comps(comps, new_comps, initial_slashes) ==
    IF comps = <<>> THEN new_comps
    ELSE LET comp == Head(comps)
             rest == Tail(comps)
         IN  IF comp = <<>> \/ comp = <<".">>
             THEN norm_comps(rest, new_comps, initial_slashes)
             ELSE IF \/ comp # <<".", ".">>
                     \/ (initial_slashes = 0 /\ new_comps = <<>>)
                     \/ (new_comps # <<>> /\ Last(new_comps) = <<".", ".">>)
             THEN norm_comps(rest, Append(new_comps, comp), initial_slashes)
             ELSE IF new_comps # <<>>
             THEN norm_comps(rest, Front(new_comps), initial_slashes)
             ELSE norm_comps(rest, new_comps, initial_slashes)

normpath(path) ==
    IF path = <<>> THEN <<".">>
    ELSE LET initial_slashes ==
                 IF ~startswith(path, <<"/">>) THEN 0
                 ELSE IF startswith(path, <<"/", "/">>) /\ ~startswith(path, <<"/", "/", "/">>)
                 THEN 2
                 ELSE 1
             comps == norm_comps(str_split(path, "/"), <<>>, initial_slashes)
             joined == str_join(comps, "/")
             out == [i \in 1..initial_slashes |-> "/"] \o joined
         IN  IF out = <<>> THEN <<".">> ELSE out

\* posixpath.splitdrive(p)[1]: POSIX paths have no drive
splitdrive_tail(p) == p

\* posixpath.split(p)[1]
split_tail(p) == SubSeq(p, LastIndexOf(p, "/") + 1, Len(p))

\* posixpath.join(a, b)
path_join(a, b) ==
    IF startswith(b, <<"/">>) THEN b
    ELSE IF a = <<>> \/ Last(a) = "/" THEN a \o b
    ELSE a \o <<"/">> \o b

\* posixpath.dirname(p)
dirname(p) ==
    LET head == SubSeq(p, 1, LastIndexOf(p, "/"))
    IN  IF head # <<>> /\ ~AllEqual(head, "/") THEN rstrip(head, "/") ELSE head

\* a faulty keep_word: the parent-directory marker is let through
keep_word_dotdot(word) == word # <<".">>

\* a faulty keep_word: the current-directory marker is let through
keep_word_dot(word) == word # <<".", ".">>

\* translate_path: whether a word is joined onto the path
keep_word(word) == word # <<".">> /\ word # <<".", ".">>

\* translate_path: the loop over the words, from path
RECURSIVE join_words(_, _)
join_words(path, words) ==
    IF words = <<>> THEN path
    ELSE LET word == split_tail(splitdrive_tail(Head(words)))
         IN  IF keep_word(word) THEN join_words(path_join(path, word), Tail(words))
             ELSE join_words(path, Tail(words))

\* translate_path: the words of the URL path
url_words(path) ==
    SelectSeq(str_split(normpath(unquote(split_first(split_first(path, "?"), "#"))), "/"),
              LAMBDA word : word # <<>>)

translate_path(path) == join_words(cwd, url_words(path))

----------------------------------------------------------------------------
(* The disk the server runs on.  Directories are fixed (no request creates  *)
(* one): the server root /s, an upload directory /s/u, a directory /s/r     *)
(* the server may not write into.  A canonical path is an absolute path     *)
(* with no empty, "." or ".." component.                                    *)

RootDir == <<"/">>
ServerRoot == <<"/", "s">>
UploadDir == <<"/", "s", "/", "u">>
ReadOnlyDir == <<"/", "s", "/", "r">>

Dirs == {RootDir, ServerRoot, UploadDir, ReadOnlyDir}
ReadOnlyDirs == {ReadOnlyDir}

\* the file present when the server starts
KeptFile == <<"/", "s", "/", "u", "/", "k">>

\* the kernel's walk over the components of a path, from directory cur:
\* <<>> when a component is looked up in something that is no directory
RECURSIVE walk(_, _)
walk(cur, comps) ==
    IF comps = <<>> THEN <<cur>>
    ELSE IF cur \notin Dirs THEN <<>>
    ELSE LET comp == Head(comps)
         IN  IF comp = <<>> \/ comp = <<".">> THEN walk(cur, Tail(comps))
             ELSE IF comp = <<".", ".">>
             THEN walk(IF cur = RootDir THEN RootDir ELSE dirname(cur), Tail(comps))
             ELSE walk(path_join(cur, comp), Tail(comps))

\* the canonical path the kernel resolves p to: <<>> or <<canonical path>>
os_resolve(p) ==
    IF p = <<>> THEN <<>>
    ELSE walk(IF startswith(p, <<"/">>) THEN RootDir ELSE cwd, str_split(p, "/"))

\* os.path.isdir(p)
isdir(p) == LET r == os_resolve(p) IN r # <<>> /\ r[1] \in Dirs

\* open(p, 'wb'): <<>> when it raises OSError, else <<the file opened>>
open_wb(p, fs) ==
    LET r == os_resolve(p)
    IN  IF r = <<>> THEN <<>>                                   \* ENOENT, ENOTDIR
        ELSE IF r[1] \in Dirs THEN <<>>                         \* EISDIR
        ELSE IF r[1] \in DOMAIN fs THEN r                       \* truncated
        ELSE IF dirname(r[1]) \in ReadOnlyDirs THEN <<>>        \* EACCES
        ELSE r                                                  \* created

\* a faulty write_file: the file is opened for appending
write_file_append(fs, p, content) ==
    IF p \in DOMAIN fs THEN [fs EXCEPT ![p] = @ \o content] ELSE (p :> content) @@ fs

\* with open(p, 'wb') as f: f.write(content), on the disk fs
write_file(fs, p, content) ==
    IF p \in DOMAIN fs THEN [fs EXCEPT ![p] = content] ELSE (p :> content) @@ fs

----------------------------------------------------------------------------
(* Requests.                                                                *)

Delim(boundary) == [k |-> "delim", v |-> boundary]
CRLF == [k |-> "crlf", v |-> <<>>]
CD == [k |-> "cd", v |-> <<>>]
FN(name) == [k |-> "fn", v |-> name]
Text(s) == [k |-> "text", v |-> <<s>>]

HasKind(s, kind) == \E i \in 1..Len(s) : s[i].k = kind

\* self.headers.get(name, default): a header is <<>> (absent) or <<value>>
headers_get(header, default) == IF header = <<>> THEN default ELSE header[1]

Digits == <<"0", "1", "2", "3", "4", "5", "6", "7", "8", "9">>
IsDigit(c) == Contains(Digits, c)
DigitVal(c) == IndexOf(Digits, c) - 1

RECURSIVE digits_val(_, _)
digits_val(s, acc) ==
    IF s = <<>> THEN acc ELSE digits_val(Tail(s), 10 * acc + DigitVal(Head(s)))

\* whether int(s) returns (it raises ValueError otherwise)
int_ok(s) ==
    LET d == IF s # <<>> /\ s[1] \in {"-", "+"} THEN Tail(s) ELSE s
    IN  d # <<>> /\ \A i \in 1..Len(d) : IsDigit(d[i])

\* int(s)
int_val(s) ==
    IF s[1] = "-" THEN 0 - digits_val(Tail(s), 0)
    ELSE IF s[1] = "+" THEN digits_val(Tail(s), 0)
    ELSE digits_val(s, 0)

\* str(n) for n >= 0
RECURSIVE str_of_nat(_)
str_of_nat(n) ==
    IF n < 10 THEN <<Digits[n + 1]>> ELSE str_of_nat(n \div 10) \o <<Digits[(n % 10) + 1]>>

\* self.rfile.read(n) on a connection that holds body
rfile_read(body, n) == SubSeq(body, 1, IF n < Len(body) THEN n ELSE Len(body))

\* html.escape on one character
html_escape_char(c) ==
    CASE c = "&" -> "&amp;"
      [] c = "<" -> "&lt;"
      [] c = ">" -> "&gt;"
      [] c = "\"" -> "&quot;"
      [] c = "'" -> "&#x27;"
      [] OTHER -> c

html_escape(s) == [i \in 1..Len(s) |-> html_escape_char(s[i])]

----------------------------------------------------------------------------
(* deal_post_data and do_POST.                                              *)

Result(r, msg, arg, write) == [r |-> r, msg |-> msg, arg |-> arg, write |-> write, raised |-> ""]
Raised(exc) == [r |-> FALSE, msg |-> "", arg |-> <<>>, write |-> <<>>, raised |-> exc]

\* a faulty filename_match: the pattern is name="([^"]*)", which the
\* name attribute of the Content-Disposition line matches first
filename_match_name(line) ==
    IF HasKind(line, "cd") THEN <<(<<"f", "i", "l", "e">>)>> ELSE <<>>

\* re.search(rb'filename="([^"]*)"', line): <<>> or <<group 1>>
filename_match(line) ==
    IF HasKind(line, "fn")
    THEN <<line[CHOOSE i \in 1..Len(line) :
                    line[i].k = "fn" /\ \A j \in 1..(i-1) : line[j].k # "fn"].v>>
    ELSE <<>>

\* the loop over enumerate(lines), from index i with filename as found so far
RECURSIVE scan_lines(_, _, _)
scan_lines(lines, i, filename) ==
    IF i >= Len(lines) THEN [filename |-> filename, content_start |-> 0]
    ELSE LET line == lines[i + 1]
         IN  IF HasKind(line, "cd")
             THEN scan_lines(lines, i + 1,
                             IF filename_match(line) # <<>> THEN filename_match(line)
                             ELSE filename)
             ELSE IF line = <<>> THEN [filename |-> filename, content_start |-> i + 1]
             ELSE scan_lines(lines, i + 1, filename)

\* the file content taken from the lines of a part
content_of(lines, content_start) ==
    LET file_content == str_join(SubSeq(lines, content_start + 1, Len(lines)), CRLF)
    IN  IF file_content # <<>> /\ Last(file_content) = CRLF THEN Front(file_content)
        ELSE file_content

\* the directory an upload to URL path is saved in
save_dir(path) ==
    LET p == translate_path(path) IN IF isdir(p) THEN p ELSE dirname(p)

\* the body of "if filename and content_start < len(lines)": save the file
save_part(path, filename, file_content, fs) ==
    LET dir == save_dir(path)
        filepath == path_join(dir, filename)
        f == open_wb(filepath, fs)
    IN  IF f # <<>>
        THEN Result(TRUE, "File uploaded successfully!", filename,
                    <<[dir |-> dir, filename |-> filename, filepath |-> filepath,
                       file |-> f[1], content |-> file_content]>>)
        ELSE Result(FALSE, "Can't save file", <<>>, <<>>)

\* the loop "for part in parts"
RECURSIVE for_parts(_, _, _)
for_parts(parts, path, fs) ==
    IF parts = <<>> THEN Result(FALSE, "No file found in upload data", <<>>, <<>>)
    ELSE LET part == Head(parts)
             lines == str_split(part, CRLF)
             sc == scan_lines(lines, 0, <<>>)
         IN  IF HasKind(part, "cd") /\ HasKind(part, "fn")
                /\ sc.filename # <<>> /\ sc.filename[1] # <<>>
                /\ sc.content_start < Len(lines)
             THEN save_part(path, sc.filename[1], content_of(lines, sc.content_start), fs)
             ELSE for_parts(Tail(parts), path, fs)

\* content_type.startswith('multipart/form-data')
is_multipart(content_type) == startswith(content_type, <<"multipart/form-data">>)

\* the statements of deal_post_data inside its try
try_deal_post_data(r, fs) ==
    LET content_type == headers_get(r.ct, <<>>)
        pieces == str_split(content_type, "boundary=")
        length == headers_get(r.cl, <<"0">>)
        content_length == int_val(length)
        post_data == rfile_read(r.body, content_length)
    IN  IF content_type = <<>> THEN Result(FALSE, "Content-Type header is missing", <<>>, <<>>)
        ELSE IF ~is_multipart(content_type)
        THEN Result(FALSE, "Content-Type is not multipart/form-data", <<>>, <<>>)
        ELSE IF Len(pieces) < 2 THEN Raised("IndexError")
        ELSE IF ~int_ok(length) THEN Raised("ValueError")
        ELSE IF content_length <= 0 THEN Result(FALSE, "No data received", <<>>, <<>>)
        ELSE for_parts(str_split(post_data, Delim(pieces[2])), r.path, fs)

\* a faulty except_Exception: the handler is missing
except_nothing(d) == d

\* "except Exception as e" of deal_post_data
except_Exception(d) ==
    IF d.raised # "" THEN Result(FALSE, "Error processing upload", <<>>, <<>>) ELSE d

deal_post_data(r, fs) == except_Exception(try_deal_post_data(r, fs))

\* the response do_POST writes for the result d: none when deal_post_data raised
post_response(r, d) ==
    IF d.raised # "" THEN <<>>
    ELSE <<[status |-> 200,
            content_type |-> "text/html; charset=utf-8",
            title |-> "Upload Result Page",
            word |-> IF d.r THEN "Success" ELSE "Failed",
            msg |-> d.msg,
            arg |-> html_escape(d.arg),
            back |-> headers_get(r.referer, <<"/">>)]>>

----------------------------------------------------------------------------
(* list_directory.                                                          *)

\* ord(c), for the characters entry names are made of
ord(c) ==
    CASE c = "." -> 46
      [] c = "A" -> 65
      [] c = "B" -> 66
      [] c = "C" -> 67
      [] c = "a" -> 97
      [] c = "b" -> 98
      [] c = "c" -> 99

\* str.lower on one character
lower_char(c) ==
    CASE c = "A" -> "a"
      [] c = "B" -> "b"
      [] c = "C" -> "c"
      [] OTHER -> c

lower(s) == [i \in 1..Len(s) |-> lower_char(s[i])]

\* a < b on str: by code point, a proper prefix first
RECURSIVE str_lt(_, _)
str_lt(a, b) ==
    IF b = <<>> THEN FALSE
    ELSE IF a = <<>> THEN TRUE
    ELSE IF ord(Head(a)) < ord(Head(b)) THEN TRUE
    ELSE IF ord(Head(a)) > ord(Head(b)) THEN FALSE
    ELSE str_lt(Tail(a), Tail(b))

\* a faulty sort_key: names are compared as they are
sort_key_raw(a) == a

\* key=lambda a: a.lower()
sort_key(a) == lower(a)

\* x put into the sorted list after every element whose key is not greater
RECURSIVE insert_sorted(_, _)
insert_sorted(sorted, x) ==
    IF sorted = <<>> THEN <<x>>
    ELSE IF str_lt(sort_key(x), sort_key(Head(sorted))) THEN <<x>> \o sorted
    ELSE <<Head(sorted)>> \o insert_sorted(Tail(sorted), x)

\* list.sort(key=...): a stable sort
RECURSIVE list_sort(_, _)
list_sort(list, sorted) ==
    IF list = <<>> THEN sorted
    ELSE list_sort(Tail(list), insert_sorted(sorted, Head(list)))

\* urllib.parse.quote(., safe='/') on one character
quote_char(c) ==
    CASE c = " " -> "%20"
      [] c = "%" -> "%25"
      [] c = "?" -> "%3F"
      [] c = "#" -> "%23"
      [] OTHER -> c

url_quote(s) == [i \in 1..Len(s) |-> quote_char(s[i])]

\* one <li> of the listing, for an entry of the given kind
list_item(name, kind) ==
    [name |-> name,
     displayname |-> html_escape(IF kind = "dir" THEN name \o <<"/">>
                                 ELSE IF kind = "link" THEN name \o <<"@">>
                                 ELSE name),
     linkname |-> url_quote(IF kind = "dir" THEN name \o <<"/">> ELSE name),
     css_class |-> IF kind = "dir" THEN "directory"
                   ELSE IF kind = "link" THEN "symlink" ELSE ""]

\* the page list_directory renders from what os.listdir returned
render_listing(names, kinds) ==
    LET sorted == list_sort(names, <<>>)
    IN  [status |-> 200, items |-> [i \in 1..Len(sorted) |-> list_item(sorted[i], kinds[sorted[i]])]]

----------------------------------------------------------------------------
(* The requests clients send.                                               *)

Boundary == <<"B">>
OtherBoundary == <<"C">>

FormType(boundary) == <<"multipart/form-data", ";", "boundary=">> \o boundary

\* Content-Type headers: absent, empty, another type, no boundary parameter,
\* a longer media type, a boundary the body does not use
OddContentTypes ==
    { <<>>, <<(<<>>)>>, <<(<<"text/plain">>)>>, <<(<<"multipart/form-data">>)>>,
      <<(<<"multipart/form-data", "x", ";", "boundary=">> \o Boundary)>>,
      <<FormType(OtherBoundary)>> }

PlainNames == { <<"a">>, <<"b">> }
Filenames == PlainNames \cup { <<>>, <<"/", "e">> }

Contents == { <<Text("h")>>, <<Text("w")>>, <<Text("w"), CRLF>> }

\* a part as sent after its delimiter: lead, the delimiter line's \r\n;
\* hdr, the Content-Disposition line; blank, whether the header line is
\* ended and followed by the empty line, the content and its \r\n
PartTokens(part) ==
    (IF part.lead THEN <<CRLF>> ELSE <<>>) \o part.hdr
    \o (IF part.blank THEN <<CRLF, CRLF>> \o part.content \o <<CRLF>> ELSE <<>>)

RECURSIVE PartsTokens(_, _)
PartsTokens(parts, boundary) ==
    IF parts = <<>> THEN <<>>
    ELSE <<Delim(boundary)>> \o PartTokens(Head(parts)) \o PartsTokens(Tail(parts), boundary)

\* a multipart body: the parts, then the closing delimiter line
BodyOf(parts, boundary) ==
    PartsTokens(parts, boundary) \o <<Delim(boundary), Text("--"), CRLF>>

FileHeaders == { <<CD>> } \cup { <<CD, FN(f)>> : f \in Filenames \ { <<"b">> } }

FirstParts ==
    { [lead |-> l, hdr |-> h, blank |-> TRUE, content |-> c] :
        l \in BOOLEAN, h \in FileHeaders, c \in Contents }
    \cup { [lead |-> l, hdr |-> h, blank |-> FALSE, content |-> <<>>] :
             l \in BOOLEAN, h \in FileHeaders }

SecondParts ==
    { [lead |-> l, hdr |-> <<CD, FN(<<"b">>)>>, blank |-> TRUE, content |-> <<Text("w")>>] :
        l \in BOOLEAN }

Bodies ==
    { BodyOf(<<p>>, Boundary) : p \in FirstParts }
    \cup { BodyOf(<<p, q>>, Boundary) : p \in FirstParts, q \in SecondParts }

\* the body a browser sends for one file field
WellFormedBody(f, c, boundary) ==
    <<Delim(boundary), CRLF, CD, FN(f), CRLF, CRLF>> \o c
    \o <<CRLF, Delim(boundary), Text("--"), CRLF>>

\* the same with the delimiter line's \r\n missing
RunOnBody(f, c, boundary) ==
    <<Delim(boundary), CD, FN(f), CRLF, CRLF>> \o c
    \o <<CRLF, Delim(boundary), Text("--"), CRLF>>

FewBodies ==
    { WellFormedBody(<<"a">>, <<Text("h")>>, Boundary),
      RunOnBody(<<"a">>, <<Text("h")>>, Boundary) }

\* URL paths: a directory, a file in it, a directory the server may not
\* write into, a path under a directory that does not exist
UploadPaths ==
    { <<"/", "u", "/">>, <<"/", "u", "/", "k">>, <<"/", "r", "/">>, <<"/", "n", "/", "x">> }

ExactLength(body) == <<str_of_nat(Len(body))>>

\* Content-Length headers: absent, zero, not a number, negative
OddLengths == { <<>>, <<(<<"0">>)>>, <<(<<"x">>)>>, <<(<<"-", "1">>)>> }

Request(path, ct, cl, body) ==
    [path |-> path, ct |-> ct, cl |-> cl, referer |-> <<>>, body |-> body]

Requests ==
    { Request(p, <<FormType(Boundary)>>, ExactLength(b), b) : p \in UploadPaths, b \in Bodies }
    \cup { Request(<<"/", "u", "/">>, ct, ExactLength(b), b) :
             ct \in OddContentTypes, b \in FewBodies }
    \cup { Request(<<"/", "u", "/">>, <<FormType(Boundary)>>, cl, b) :
             cl \in OddLengths, b \in FewBodies }

----------------------------------------------------------------------------
(* The server: HTTPServer.serve_forever handles one request at a time, a    *)
(* new handler object for each.                                             *)

MaxRequests == 2

InitFiles == KeptFile :> <<Text("k")>>

Init ==
    /\ cwd = ServerRoot
    /\ pc = "idle"
    /\ files = InitFiles
    /\ req = <<>>
    /\ resp = <<>>
    /\ handled = 0
    /\ uploads = <<>>
    /\ urlpath = <<>>
    /\ resolved = <<>>
    /\ again = <<>>
    /\ below = <<>>
    /\ entries = <<>>
    /\ file_list = <<>>
    /\ listing = <<>>

PathVars == <<urlpath, resolved, again, below>>
ListVars == <<entries, file_list, listing>>
ServerVars == <<files, req, resp, handled, uploads>>

\* a POST request arrives and its handler is constructed
Receive ==
    /\ pc = "idle"
    /\ handled < MaxRequests
    /\ \E r \in Requests : req' = <<r>>
    /\ resp' = <<>>
    /\ pc' = "received"
    /\ UNCHANGED <<cwd, files, handled, uploads, PathVars, ListVars>>

do_POST ==
    /\ pc = "received"
    /\ \E d \in {deal_post_data(req[1], files)} :
           /\ files' = IF d.write # <<>>
                       THEN write_file(files, d.write[1].file, d.write[1].content)
                       ELSE files
           /\ uploads' = IF d.write # <<>>
                         THEN Append(uploads, [n |-> handled + 1] @@ d.write[1])
                         ELSE uploads
           /\ resp' = post_response(req[1], d)
    /\ handled' = handled + 1
    /\ pc' = "responded"
    /\ UNCHANGED <<cwd, req, PathVars, ListVars>>

\* the handler is finished; the server waits for the next request
Finish ==
    /\ pc = "responded"
    /\ req' = <<>>
    /\ resp' = <<>>
    /\ pc' = "idle"
    /\ UNCHANGED <<cwd, files, handled, uploads, PathVars, ListVars>>

Next == Receive \/ do_POST \/ Finish

Spec == Init /\ [][Next]_vars

----------------------------------------------------------------------------
(* translate_path on its own: a URL path is resolved, and the resolved path *)
(* is given to translate_path again.                                        *)

MaxUrlLen == 5

UrlChars == { "/", ".", "a", "?", "#", "%2e", "%2f", "%3f" }

UrlPaths == UNION { [1..n -> UrlChars] : n \in 0..MaxUrlLen }

Roots == { RootDir, ServerRoot }

\* the part of an absolute path p under the directory root, as a URL path
under_root(p, root) ==
    IF root = RootDir THEN p ELSE SubSeq(p, Len(root) + 1, Len(p))

InitPath ==
    /\ cwd \in Roots
    /\ urlpath \in UrlPaths
    /\ pc = "start"
    /\ resolved = <<>>
    /\ again = <<>>
    /\ below = <<>>
    /\ files = InitFiles
    /\ req = <<>>
    /\ resp = <<>>
    /\ handled = 0
    /\ uploads = <<>>
    /\ entries = <<>>
    /\ file_list = <<>>
    /\ listing = <<>>

Resolve ==
    /\ pc = "start"
    /\ resolved' = <<translate_path(urlpath)>>
    /\ pc' = "resolved"
    /\ UNCHANGED <<cwd, urlpath, again, below, ServerVars, ListVars>>

ResolveAgain ==
    /\ pc = "resolved"
    /\ again' = <<translate_path(resolved[1])>>
    /\ below' = <<translate_path(under_root(resolved[1], cwd))>>
    /\ pc' = "again"
    /\ UNCHANGED <<cwd, urlpath, resolved, ServerVars, ListVars>>

NextPath == Resolve \/ ResolveAgain

SpecPath == InitPath /\ [][NextPath]_vars

----------------------------------------------------------------------------
(* list_directory on its own: a directory with some entries, which          *)
(* os.listdir returns in an order of its own.                               *)

MaxEntries == 3

EntryNames == { <<"a">>, <<"B">>, <<"C">>, <<"b">>, <<"A">>, <<"a", ".", "b">> }

EntryKinds == { "file", "dir", "link" }

\* every order a set of names can be returned in
Orders(S) ==
    { f \in [1..Cardinality(S) -> S] : \A i, j \in 1..Cardinality(S) : i # j => f[i] # f[j] }

InitList ==
    /\ cwd = ServerRoot
    /\ pc = "start"
    /\ \E S \in SUBSET EntryNames :
           /\ Cardinality(S) <= MaxEntries
           /\ entries \in [S -> EntryKinds]
           /\ file_list \in Orders(S)
    /\ listing = <<>>
    /\ urlpath = <<>>
    /\ resolved = <<>>
    /\ again = <<>>
    /\ below = <<>>
    /\ files = InitFiles
    /\ req = <<>>
    /\ resp = <<>>
    /\ handled = 0
    /\ uploads = <<>>

list_directory ==
    /\ pc = "start"
    /\ listing' = <<render_listing(file_list, entries)>>
    /\ pc' = "listed"
    /\ UNCHANGED <<cwd, entries, file_list, ServerVars, PathVars>>

\* os.listdir raises OSError: send_error(404), return None
list_directory_denied ==
    /\ pc = "start"
    /\ listing' = <<[status |-> 404, items |-> <<>>]>>
    /\ pc' = "listed"
    /\ UNCHANGED <<cwd, entries, file_list, ServerVars, PathVars>>

NextList == list_directory \/ list_directory_denied

SpecList == InitList /\ [][NextList]_vars

----------------------------------------------------------------------------
(* The claims.                                                              *)

\* the writes deal_post_data performed for the request just answered
WritesOfRequest == { i \in 1..Len(uploads) : uploads[i].n = handled }

\* lexically beneath (or at) the directory root
Beneath(p, root) ==
    \/ p = root
    \/ startswith(p, IF root = RootDir THEN root ELSE root \o <<"/">>)

\* C1: round-trip upload: a well-formed multipart POST with one file part of
\* non-empty filename f and content c, to a URL path that resolves to an
\* existing writable directory d, is answered 200 "Success" naming f, and
\* leaves the file d/f holding exactly c.
C1_RoundTripUpload ==
    pc = "responded" =>
        \A f \in PlainNames, c \in Contents :
            LET r == req[1]
                d == translate_path(r.path)
            IN  ( /\ r.ct = <<FormType(Boundary)>>
                  /\ r.body = WellFormedBody(f, c, Boundary)
                  /\ r.cl = ExactLength(r.body)
                  /\ d \in Dirs \ ReadOnlyDirs )
                => /\ resp # <<>>
                   /\ resp[1].status = 200
                   /\ resp[1].word = "Success"
                   /\ resp[1].arg = f
                   /\ path_join(d, f) \in DOMAIN files
                   /\ files[path_join(d, f)] = c

\* C2: upload sandbox: every file deal_post_data creates or overwrites lies
\* beneath the server root, whatever the request.
C2_UploadSandbox ==
    \A i \in 1..Len(uploads) :
        uploads[i].file # cwd /\ Beneath(uploads[i].file, cwd)

\* C3: resolver sandbox: translate_path(p) has the server root as a lexical
\* prefix and no "." or ".." segment after that prefix, for every URL path p.
C3_ResolverSandbox ==
    resolved # <<>> =>
        /\ Beneath(resolved[1], cwd)
        /\ LET segments == str_split(under_root(resolved[1], cwd), "/")
           IN  \A i \in 1..Len(segments) :
                   segments[i] # <<".">> /\ segments[i] # <<".", ".">>

\* C3, its case: a URL path whose percent-encoded ".." would climb above the root
C3_Witness ==
    /\ pc = "resolved"
    /\ cwd = ServerRoot
    /\ urlpath = <<"%2e", "%2e", "/", "a">>
    /\ resolved = <<(<<"/", "s", "/", "a">>)>>

\* C4: every POST that is answered is answered 200 with the HTML result page,
\* whatever deal_post_data found; no upload error leaves it as an exception.
C4_AlwaysResultPage ==
    pc = "responded" =>
        /\ resp # <<>>
        /\ resp[1].status = 200
        /\ resp[1].content_type = "text/html; charset=utf-8"
        /\ resp[1].title = "Upload Result Page"
        /\ resp[1].word \in {"Success", "Failed"}
        /\ resp[1].word = "Success" <=> WritesOfRequest # {}
        /\ resp[1].msg # ""

\* C4, its case: a Content-Length that is no number, which int() rejects
C4_Witness ==
    /\ pc = "responded"
    /\ req[1].cl = <<(<<"x">>)>>
    /\ resp # <<>>
    /\ resp[1].status = 200
    /\ resp[1].word = "Failed"
    /\ resp[1].msg = "Error processing upload"

\* no part of the body carries a filename attribute that is not empty
NoFilename(body) ==
    \A i \in 1..Len(body) : body[i].k = "fn" => body[i].v = <<>>

\* C5: missing filename rejected: when no part carries a filename attribute,
\* or the attribute is the empty string, the result page says "Failed" with a
\* reason and no file is created or modified.
C5_MissingFilenameRejected ==
    [][ (pc = "received" /\ NoFilename(req[1].body))
        => /\ files' = files
           /\ resp' # <<>>
           /\ resp'[1].word = "Failed"
           /\ resp'[1].msg # "" ]_vars

\* C5, its case: a part the parser reads, whose filename attribute is empty
C5_Witness ==
    /\ pc = "responded"
    /\ req[1].ct = <<FormType(Boundary)>>
    /\ req[1].body = RunOnBody(<<>>, <<Text("h")>>, Boundary)
    /\ resp # <<>>
    /\ resp[1].word = "Failed"
    /\ resp[1].msg = "No file found in upload data"
    /\ WritesOfRequest = {}

\* C6: non-multipart POST rejected: a Content-Type whose media type (the
\* value before any ";") is not exactly multipart/form-data gets the
\* not-multipart failure, and no file is written.
C6_NonMultipartRejected ==
    ( /\ pc = "responded"
      /\ req[1].ct # <<>>
      /\ req[1].ct[1] # <<>>
      /\ split_first(req[1].ct[1], ";") # <<"multipart/form-data">> )
    => /\ resp # <<>>
       /\ resp[1].word = "Failed"
       /\ resp[1].msg = "Content-Type is not multipart/form-data"
       /\ WritesOfRequest = {}

\* the uploads that wrote the file p
WritesTo(p) == { i \in 1..Len(uploads) : uploads[i].file = p }

\* C7: overwrite semantics: of the uploads handled one after another, the
\* last one written to a file decides exactly its content; uploads of the
\* same filename into the same directory write the same file; every file no
\* upload wrote is as it was, and no other file appears.
C7_Overwrite ==
    /\ DOMAIN files = DOMAIN InitFiles \cup { uploads[i].file : i \in 1..Len(uploads) }
    /\ \A p \in DOMAIN files :
           files[p] = IF WritesTo(p) = {} THEN InitFiles[p]
                      ELSE uploads[CHOOSE i \in WritesTo(p) : \A j \in WritesTo(p) : j <= i].content
    /\ \A i, j \in 1..Len(uploads) :
           (uploads[i].dir = uploads[j].dir /\ uploads[i].filename = uploads[j].filename)
           => uploads[i].file = uploads[j].file

\* C7, its case: the second of two uploads of one filename into one
\* directory, with different content, has completed
C7_Witness ==
    /\ pc = "responded"
    /\ Len(uploads) = 2
    /\ uploads[2].n = handled
    /\ uploads[1].dir = uploads[2].dir
    /\ uploads[1].filename = uploads[2].filename
    /\ uploads[1].content = <<Text("h")>>
    /\ uploads[2].content = <<Text("w")>>
    /\ files[uploads[2].file] = <<Text("w")>>
    /\ files[KeptFile] = <<Text("k")>>

\* C8 as stated: translate_path applied to translate_path(p) is
\* translate_path(p), for every URL path p and any server root.
C8_Idempotent ==
    again # <<>> => again[1] = resolved[1]

\* a path translate_path reads as it stands: no query or fragment mark and
\* no percent-escape
ReadAsIs(p) == ~Contains(p, "?") /\ ~Contains(p, "#") /\ unquote(p) = p

\* C8 as amended: translate_path applied to the part of translate_path(p)
\* under the server root is translate_path(p), when that part holds no "?",
\* no "#" and no percent-escape.
C8_IdempotentUnderRoot ==
    (below # <<>> /\ ReadAsIs(under_root(resolved[1], cwd)))
    => below[1] = resolved[1]

\* C8, its case: a resolved path of two words is resolved again
C8_Witness ==
    /\ pc = "again"
    /\ cwd = ServerRoot
    /\ urlpath = <<"/", "a", "%2f", "a">>
    /\ resolved = <<(<<"/", "s", "/", "a", "/", "a">>)>>
    /\ below = resolved

\* C9: directory listing order: the entries are rendered in non-decreasing
\* order of their lower-cased names, every entry of the directory once.
C9_ListingOrder ==
    (listing # <<>> /\ listing[1].status = 200) =>
        LET items == listing[1].items
        IN  /\ Len(items) = Cardinality(DOMAIN entries)
            /\ \A name \in DOMAIN entries :
                   Cardinality({ i \in 1..Len(items) : items[i].name = name }) = 1
            /\ \A i, j \in 1..Len(items) :
                   i < j => ~str_lt(lower(items[j].name), lower(items[i].name))

\* C9, its case: os.listdir returned B, a, C and the page lists a, B, C
C9_Witness ==
    /\ pc = "listed"
    /\ file_list = << <<"B">>, <<"a">>, <<"C">> >>
    /\ listing # <<>>
    /\ listing[1].status = 200
    /\ [i \in 1..3 |-> listing[1].items[i].name] = << <<"a">>, <<"B">>, <<"C">> >>

\* the parts of the body that carry a filename attribute, by position
FileParts(parts) == { i \in 1..Len(parts) : HasKind(parts[i], "fn") }

\* C10: single-file policy: at most one file is written, and only from the
\* first part that carries a filename attribute; when that part's filename is
\* empty nothing is written in its place.
C10_SingleFilePolicy ==
    (pc = "responded" /\ req[1].ct = <<FormType(Boundary)>>) =>
        LET parts == str_split(req[1].body, Delim(Boundary))
            first == CHOOSE i \in FileParts(parts) : \A j \in FileParts(parts) : i <= j
        IN  /\ Cardinality(WritesOfRequest) <= 1
            /\ \A i \in WritesOfRequest :
                   /\ FileParts(parts) # {}
                   /\ filename_match(parts[first]) = <<uploads[i].filename>>

====
